---------------------------- MODULE Spec2Model ----------------------------
(***************************************************************************)
(* Presence monitors of the BlueLock repository.                           *)
(*                                                                         *)
(*   Spec      the command-line monitors, one run of one of them:          *)
(*               "perfect"  main/bluelock_perfect.py  (lock / wake)        *)
(*               "sleep"    main/sleep_on_disconnect.py (display off)      *)
(*               "simple"   main/bluelock_simple.py (screen off)           *)
(*               "original" archive/bluelock_original.py (lock / wake)     *)
(*   SpecApp   app.py: Flask request handlers and the monitor threads      *)
(*   SpecWeb   archive/bluelock_web_old.py: the start and stop routes and    *)
(*             the monitoring_loop threads                                 *)
(*   SpecGui   main/bluelock_gui.py: the buttons, the monitoring threads   *)
(*             and the time their sleeps take                              *)
(*                                                                         *)
(* Durations are in half seconds (settings.SCAN_INTERVAL = 2.5 s is 5).    *)
(* A Python Optional is a sequence: <<>> is None, <<v>> is the value v.    *)
(***************************************************************************)
EXTENDS Integers, Sequences, FiniteSets, TLC

VARIABLES
    prog,       \* which script this run executes
    settings,   \* tools/settings.py as imported by the script
    perfect,    \* PerfectBlueLock.monitor_device: self.device_in_range and the locals
    args,       \* sleep_on_disconnect: the command line flags main() parsed
    sleep,      \* sleep_on_disconnect: the locals of main()
    simple,     \* bluelock_simple: the locals of monitor_device
    original,   \* archive/bluelock_original: OptimizedBlueLock and monitor's locals
    events,     \* the action invocations of the run, in order
    twin,       \* a second run of the same script on a related probe sequence
    echo,       \* a third run, on the same probes with other signal readings
    monitor_state,    \* app.py: the global dict the routes and the loop share
    stop_monitoring,  \* app.py: the global stop flag
    monitor_thread,   \* app.py: the global holding the last thread started
    threads,          \* app.py: every monitor_loop thread, its position and locals
    requests,         \* app.py: every request handler, its position and locals
    gui,              \* bluelock_gui.py: BlueLockGUI and its monitoring threads
    web,              \* archive/bluelock_web_old.py: the globals and the loop threads
    pick              \* sleep_on_disconnect: one call of pick_device and its config file

\* what a command-line monitor never touches
appVars == <<monitor_state, stop_monitoring, monitor_thread, threads, requests, gui, web,
             pick>>

\* what app.py never touches
cliVars == <<settings, perfect, args, sleep, simple, original, twin, echo, gui, web,
             pick>>

vars == <<prog, settings, perfect, args, sleep, simple, original, events, twin, echo,
          monitor_state, stop_monitoring, monitor_thread, threads, requests, gui, web, pick>>

---------------------------------------------------------------------------
\* Bounds of the model.

\* scans one run of a monitor performs at most
MaxScans == 7

---------------------------------------------------------------------------
\* Values.

None == <<>>

Some(v) == <<v>>

\* signal readings a BLE advertisement may carry (0 is Python-falsy)
RssiValues == {-80, 0}

OptRssi == {None} \cup {Some(r) : r \in RssiValues}

\* settings.py values a deployment may set; the shipped ones are 5 (2.5 s) and 12 (6 s)
ScanIntervals == {2, 5, 14}

MinOutOfRangeTimes == {6, 12}

SettingsValues ==
    [SCAN_INTERVAL : ScanIntervals, MIN_OUT_OF_RANGE_TIME : MinOutOfRangeTimes,
     ENABLE_LOCK : BOOLEAN, ENABLE_WAKE : BOOLEAN]

\* tools/settings.py as shipped
ShippedSettings ==
    [SCAN_INTERVAL |-> 5, MIN_OUT_OF_RANGE_TIME |-> 12,
     ENABLE_LOCK |-> TRUE, ENABLE_WAKE |-> TRUE]

Max(a, b) == IF a >= b THEN a ELSE b

\* Python's truth value of an Optional number: None and 0 are false
Truthy(opt) == opt # None /\ opt[1] # 0

\* What the radio does during one enhanced_scan: m1 is the target's reading in the
\* quick discovery, m2 the last reading the callback scanner saw, m3 whether the
\* extended discovery lists the target, exc the method (1..3) whose bleak call
\* raises, 0 when none does. Nothing is recorded of a method that does not run.
RawScans ==
    {raw \in [m1 : OptRssi, m2 : OptRssi, m3 : BOOLEAN, exc : 0..3] :
        /\ raw.exc = 1 => raw.m1 = None /\ raw.m2 = None /\ ~raw.m3
        /\ raw.m1 # None => raw.m2 = None /\ ~raw.m3 /\ raw.exc = 0
        /\ raw.exc = 2 => raw.m2 = None /\ ~raw.m3
        /\ Truthy(raw.m2) => ~raw.m3 /\ raw.exc = 0
        /\ raw.exc = 3 => ~raw.m3}

\* the probe found no trace of the device and nothing failed
IsAbsent(raw) == raw.exc = 0 /\ raw.m1 = None /\ raw.m2 = None /\ ~raw.m3

\* the probe mechanism failed before it had seen the device
IsProbeError(raw) == raw.exc # 0 /\ raw.m1 = None /\ raw.m2 = None

\* the probe sequences of two runs are related when they differ only in which
\* misses are Absent and which are ProbeError
Related(raw) ==
    {raw} \cup IF IsAbsent(raw) \/ IsProbeError(raw)
               THEN {r \in RawScans : IsAbsent(r) \/ IsProbeError(r)}
               ELSE {}

\* the probe sequences of two runs have the same Present / Absent pattern and
\* differ in signal readings when every method of every scan sees the device
\* in both runs or in neither, and fails in both or in neither
Reread(raw) ==
    {r \in RawScans : /\ r.exc = raw.exc
                      /\ (r.m1 = None) = (raw.m1 = None)
                      /\ (r.m2 = None) = (raw.m2 = None)
                      /\ r.m3 = raw.m3}

\* what a system command (subprocess.run, SendMessageW) does when it is executed
CommandOutcomes == {"ok", "raise"}

---------------------------------------------------------------------------
\* bluelock_perfect.py

\* enhanced_scan with the handler of method 3 answering the assumed reading
enhanced_scan_assumes(raw) ==
    IF raw.exc = 1 THEN None
    ELSE IF raw.m1 # None THEN raw.m1
    ELSE IF raw.exc = 2 THEN None
    ELSE IF Truthy(raw.m2) THEN raw.m2
    ELSE IF raw.exc = 3 THEN Some(-65)
    ELSE IF raw.m3 THEN Some(-65)
    ELSE None

\* PerfectBlueLock.enhanced_scan: the reading, or None
enhanced_scan(raw) ==
    IF raw.exc = 1 THEN None
    ELSE IF raw.m1 # None THEN raw.m1
    ELSE IF raw.exc = 2 THEN None
    ELSE IF Truthy(raw.m2) THEN raw.m2
    ELSE IF raw.exc = 3 THEN None
    ELSE IF raw.m3 THEN Some(-65)
    ELSE None

\* execute_action without the settings.ENABLE_LOCK / ENABLE_WAKE tests
execute_action_ungated(action, s, tick, outcome) ==
    IF action = "lock"
    THEN <<[tick |-> tick, action |-> "lock", outcome |-> outcome]>>
    ELSE IF action = "wake"
    THEN <<[tick |-> tick, action |-> "wake", outcome |-> outcome]>>
    ELSE <<>>

\* PerfectBlueLock.execute_action: the command it runs, as an invocation; the
\* exception of a failing command is swallowed
execute_action(action, s, tick, outcome) ==
    IF action = "lock" /\ s.ENABLE_LOCK
    THEN <<[tick |-> tick, action |-> "lock", outcome |-> outcome]>>
    ELSE IF action = "wake" /\ s.ENABLE_WAKE
    THEN <<[tick |-> tick, action |-> "wake", outcome |-> outcome]>>
    ELSE <<>>

\* the detections monitor_device asks for before "back in range"
REQUIRED_HITS == 2

\* required_misses of monitor_device
required_misses(s) == Max(2, s.MIN_OUT_OF_RANGE_TIME \div s.SCAN_INTERVAL)

\* the state PerfectBlueLock() and the top of monitor_device set up; previous
\* remembers the scan before ("hit", "miss"), alternating that no two scans in
\* a row have agreed so far
PerfectInit ==
    [device_in_range |-> FALSE, consecutive_misses |-> 0, consecutive_hits |-> 0,
     last_rssi |-> None, scan_count |-> 0, rssi |-> None, pc |-> "scan",
     previous |-> "none", alternating |-> TRUE]

\* the scan just made, as a result
ScanResult(m) == IF m.rssi # None THEN "hit" ELSE "miss"

\* monitor_device's loop body with > in place of >= in the lock test
monitor_device_body_late(m, s, outcome) ==
    IF m.rssi # None
    THEN LET back == ~m.device_in_range /\ m.consecutive_hits + 1 >= REQUIRED_HITS
         IN [mon |-> [m EXCEPT !.consecutive_misses = 0,
                               !.consecutive_hits = @ + 1,
                               !.last_rssi = m.rssi,
                               !.device_in_range = IF back THEN TRUE ELSE @,
                               !.pc = "sleep"],
             evs |-> IF back THEN execute_action("wake", s, m.scan_count, outcome)
                     ELSE <<>>]
    ELSE LET out == m.device_in_range /\ m.consecutive_misses + 1 > required_misses(s)
         IN [mon |-> [m EXCEPT !.consecutive_hits = 0,
                               !.consecutive_misses = @ + 1,
                               !.device_in_range = IF out THEN FALSE ELSE @,
                               !.pc = "sleep"],
             evs |-> IF out THEN execute_action("lock", s, m.scan_count, outcome)
                     ELSE <<>>]

\* monitor_device's loop body without "not self.device_in_range" in the wake test
monitor_device_body_rewake(m, s, outcome) ==
    IF m.rssi # None
    THEN LET back == m.consecutive_hits + 1 >= REQUIRED_HITS
         IN [mon |-> [m EXCEPT !.consecutive_misses = 0,
                               !.consecutive_hits = @ + 1,
                               !.last_rssi = m.rssi,
                               !.device_in_range = IF back THEN TRUE ELSE @,
                               !.pc = "sleep"],
             evs |-> IF back THEN execute_action("wake", s, m.scan_count, outcome)
                     ELSE <<>>]
    ELSE LET out == m.device_in_range /\ m.consecutive_misses + 1 >= required_misses(s)
         IN [mon |-> [m EXCEPT !.consecutive_hits = 0,
                               !.consecutive_misses = @ + 1,
                               !.device_in_range = IF out THEN FALSE ELSE @,
                               !.pc = "sleep"],
             evs |-> IF out THEN execute_action("lock", s, m.scan_count, outcome)
                     ELSE <<>>]

\* monitor_device's loop body without "consecutive_hits = 0" on a miss
monitor_device_body_keeps_hits(m, s, outcome) ==
    IF m.rssi # None
    THEN LET back == ~m.device_in_range /\ m.consecutive_hits + 1 >= REQUIRED_HITS
         IN [mon |-> [m EXCEPT !.consecutive_misses = 0,
                               !.consecutive_hits = @ + 1,
                               !.last_rssi = m.rssi,
                               !.device_in_range = IF back THEN TRUE ELSE @,
                               !.pc = "sleep"],
             evs |-> IF back THEN execute_action("wake", s, m.scan_count, outcome)
                     ELSE <<>>]
    ELSE LET out == m.device_in_range /\ m.consecutive_misses + 1 >= required_misses(s)
         IN [mon |-> [m EXCEPT !.consecutive_misses = @ + 1,
                               !.device_in_range = IF out THEN FALSE ELSE @,
                               !.pc = "sleep"],
             evs |-> IF out THEN execute_action("lock", s, m.scan_count, outcome)
                     ELSE <<>>]

\* monitor_device's loop body with device_in_range assigned after the action
\* and only when its command did not raise
monitor_device_body_flip_after(m, s, outcome) ==
    IF m.rssi # None
    THEN LET back == ~m.device_in_range /\ m.consecutive_hits + 1 >= REQUIRED_HITS
             evs == IF back THEN execute_action("wake", s, m.scan_count, outcome) ELSE <<>>
         IN [mon |-> [m EXCEPT !.consecutive_misses = 0,
                               !.consecutive_hits = @ + 1,
                               !.last_rssi = m.rssi,
                               !.device_in_range =
                                   IF back /\ ~(evs # <<>> /\ outcome = "raise")
                                   THEN TRUE ELSE @,
                               !.pc = "sleep"],
             evs |-> evs]
    ELSE LET out == m.device_in_range /\ m.consecutive_misses + 1 >= required_misses(s)
             evs == IF out THEN execute_action("lock", s, m.scan_count, outcome) ELSE <<>>
         IN [mon |-> [m EXCEPT !.consecutive_hits = 0,
                               !.consecutive_misses = @ + 1,
                               !.device_in_range =
                                   IF out /\ ~(evs # <<>> /\ outcome = "raise")
                                   THEN FALSE ELSE @,
                               !.pc = "sleep"],
             evs |-> evs]

\* the body of monitor_device's loop from the scan's return to the sleep:
\* the counters, the judgment, and the action of a transition
monitor_device_body(m, s, outcome) ==
    IF m.rssi # None
    THEN LET back == ~m.device_in_range /\ m.consecutive_hits + 1 >= REQUIRED_HITS
         IN [mon |-> [m EXCEPT !.consecutive_misses = 0,
                               !.consecutive_hits = @ + 1,
                               !.last_rssi = m.rssi,
                               !.device_in_range = IF back THEN TRUE ELSE @,
                               !.pc = "sleep"],
             evs |-> IF back THEN execute_action("wake", s, m.scan_count, outcome)
                     ELSE <<>>]
    ELSE LET out == m.device_in_range /\ m.consecutive_misses + 1 >= required_misses(s)
         IN [mon |-> [m EXCEPT !.consecutive_hits = 0,
                               !.consecutive_misses = @ + 1,
                               !.device_in_range = IF out THEN FALSE ELSE @,
                               !.pc = "sleep"],
             evs |-> IF out THEN execute_action("lock", s, m.scan_count, outcome)
                     ELSE <<>>]

\* scan_count += 1; rssi = await self.enhanced_scan(target_address)
PerfectScan ==
    /\ prog = "perfect"
    /\ perfect.pc = "scan"
    /\ perfect.scan_count < MaxScans
    /\ \E raw \in RawScans :
         /\ perfect' = [perfect EXCEPT !.scan_count = @ + 1,
                                       !.rssi = enhanced_scan(raw),
                                       !.pc = "decide"]
         /\ \E raw2 \in IF echo.on THEN {raw} ELSE Related(raw) :
              twin' = [twin EXCEPT !.m.scan_count = @ + 1,
                                   !.m.rssi = enhanced_scan(raw2),
                                   !.m.pc = "decide",
                                   !.swapped = @ \/ IsAbsent(raw) # IsAbsent(raw2)]
         /\ \E raw3 \in IF echo.on THEN Reread(raw) ELSE {raw} :
              echo' = [echo EXCEPT !.m.scan_count = @ + 1,
                                   !.m.rssi = enhanced_scan(raw3),
                                   !.m.pc = "decide",
                                   !.reread = @ \/ raw3 # raw]
    /\ UNCHANGED <<prog, settings, original, simple, args, sleep, events>>
    /\ UNCHANGED appVars

PerfectDecide ==
    /\ prog = "perfect"
    /\ perfect.pc = "decide"
    /\ \E outcome \in CommandOutcomes :
         LET r == monitor_device_body(perfect, settings, outcome)
             t == monitor_device_body(twin.m, twin.settings, outcome)
             e == monitor_device_body(echo.m, settings, outcome)
         IN /\ perfect' = [r.mon EXCEPT
                              !.previous = ScanResult(perfect),
                              !.alternating = @ /\ ScanResult(perfect) # perfect.previous]
            /\ events' = events \o r.evs
            /\ twin' = [twin EXCEPT !.m = t.mon, !.events = @ \o t.evs]
            /\ echo' = [echo EXCEPT !.m = e.mon, !.events = @ \o e.evs]
    /\ UNCHANGED <<prog, settings, original, simple, args, sleep>>
    /\ UNCHANGED appVars

\* await asyncio.sleep(settings.SCAN_INTERVAL)
PerfectSleep ==
    /\ prog = "perfect"
    /\ perfect.pc = "sleep"
    /\ perfect' = [perfect EXCEPT !.pc = "scan"]
    /\ twin' = [twin EXCEPT !.m.pc = "scan"]
    /\ echo' = [echo EXCEPT !.m.pc = "scan"]
    /\ UNCHANGED <<prog, settings, original, simple, args, sleep, events>>
    /\ UNCHANGED appVars

\* Ctrl+C: KeyboardInterrupt ends monitor_device wherever it is
PerfectInterrupt ==
    /\ prog = "perfect"
    /\ perfect.pc # "stopped"
    /\ perfect' = [perfect EXCEPT !.pc = "stopped"]
    /\ twin' = [twin EXCEPT !.m.pc = "stopped"]
    /\ echo' = [echo EXCEPT !.m.pc = "stopped"]
    /\ UNCHANGED <<prog, settings, original, simple, args, sleep, events>>
    /\ UNCHANGED appVars

---------------------------------------------------------------------------
\* sleep_on_disconnect.py

DISCONNECT_GRACE_CHECKS == 2

FULL_SYSTEM_SLEEP == FALSE

\* What PowerShell does for one Get-PnpDevice query: exc when subprocess.run itself
\* raises, else the return code and the stripped standard output.
ConnStatuses == {"OK", "ok", "Error", ""}

ConnRaws == [exc : {TRUE}] \cup [exc : {FALSE}, rc : {0, 1}, status : ConnStatuses]

\* str.upper() on the statuses PowerShell prints
Upper(str) == IF str = "ok" THEN "OK" ELSE IF str = "Error" THEN "ERROR" ELSE str

\* sleep_on_disconnect.is_device_connected, for a query subprocess.run completed
sleep_is_device_connected(raw) ==
    IF raw.rc # 0 THEN FALSE ELSE Upper(raw.status) = "OK"

\* sys.argv[1:] as main() looks at it: whether --once and --no-sleep occur, and
\* the word after --max-checks when that flag occurs
ArgvValues ==
    [once : BOOLEAN, no_sleep : BOOLEAN,
     max_checks : {None, Some("1"), Some("3"), Some("x")}]

\* int(args[i + 1]): the number a decimal word denotes; None when int() raises
int_(word) ==
    CASE word = "1" -> Some(1)
      [] word = "3" -> Some(3)
      [] OTHER -> None

\* the flag parsing of main(): --once sets max_checks = 1, a --max-checks whose
\* word is a number overwrites it, one whose word is not leaves it as it was
main_flags(argv) ==
    LET once_checks == IF argv.once THEN Some(1) ELSE None
        parsed == IF argv.max_checks # None THEN int_(argv.max_checks[1]) ELSE None
    IN [no_sleep |-> argv.no_sleep,
        max_checks |-> IF parsed # None THEN parsed ELSE once_checks,
        argv |-> argv]

\* flags main() accepts: --no-sleep, and --once / --max-checks n
ArgsValues == {main_flags(argv) : argv \in ArgvValues}

\* main() run without flags
NoArgs == main_flags([once |-> FALSE, no_sleep |-> FALSE, max_checks |-> None])

SleepInit ==
    [consecutive_misses |-> 0, has_slept |-> FALSE, checks_done |-> 0,
     connected |-> FALSE, n_checks |-> 0, pc |-> "check"]

\* what one call of turn_off_display does: SendMessageW succeeds ("ok"), or it
\* raises and LockWorkStation runs instead ("fallback"), or that raises too
DisplayOutcomes == {"ok", "fallback", "raise"}

\* turn_off_display: the invocation, and whether an exception leaves the function
turn_off_display(tick, outcome) ==
    [evs |-> <<[tick |-> tick, action |-> "display_off", outcome |-> outcome]>>,
     raised |-> outcome = "raise"]

\* sleep_system: SetSuspendState through rundll32, no handler
sleep_system(tick, outcome) ==
    [evs |-> <<[tick |-> tick, action |-> "suspend",
                outcome |-> IF outcome = "ok" THEN "ok" ELSE "raise"]>>,
     raised |-> outcome # "ok"]

\* main()'s loop body without the has_slept latch being set
sleep_main_body_unlatched(st, a, outcome) ==
    IF st.connected
    THEN [st |-> [st EXCEPT !.consecutive_misses = 0, !.has_slept = FALSE,
                            !.pc = "sleep"],
          evs |-> <<>>]
    ELSE LET misses == st.consecutive_misses + 1
             counted == [st EXCEPT !.consecutive_misses = misses]
         IN IF misses >= DISCONNECT_GRACE_CHECKS /\ ~st.has_slept
            THEN IF a.no_sleep
                 THEN [st |-> [counted EXCEPT !.pc = "sleep"], evs |-> <<>>]
                 ELSE LET r == turn_off_display(st.n_checks, outcome)
                      IN IF r.raised
                         THEN [st |-> [counted EXCEPT !.pc = "crashed"], evs |-> r.evs]
                         ELSE [st |-> [counted EXCEPT !.pc = "sleep"], evs |-> r.evs]
            ELSE [st |-> [counted EXCEPT !.pc = "sleep"], evs |-> <<>>]

\* main()'s loop body with the has_slept latch set only when SendMessageW worked
sleep_main_body_retries(st, a, outcome) ==
    IF st.connected
    THEN [st |-> [st EXCEPT !.consecutive_misses = 0, !.has_slept = FALSE,
                            !.pc = "sleep"],
          evs |-> <<>>]
    ELSE LET misses == st.consecutive_misses + 1
             counted == [st EXCEPT !.consecutive_misses = misses]
         IN IF misses >= DISCONNECT_GRACE_CHECKS /\ ~st.has_slept
            THEN IF a.no_sleep
                 THEN [st |-> [counted EXCEPT !.has_slept = TRUE, !.pc = "sleep"],
                       evs |-> <<>>]
                 ELSE LET r == turn_off_display(st.n_checks, outcome)
                      IN IF r.raised
                         THEN [st |-> [counted EXCEPT !.pc = "crashed"], evs |-> r.evs]
                         ELSE [st |-> [counted EXCEPT !.has_slept = (outcome = "ok"),
                                                      !.pc = "sleep"],
                               evs |-> r.evs]
            ELSE [st |-> [counted EXCEPT !.pc = "sleep"], evs |-> <<>>]

\* the body of main()'s loop between the connection check and time.sleep
sleep_main_body(st, a, outcome) ==
    IF st.connected
    THEN [st |-> [st EXCEPT !.consecutive_misses = 0, !.has_slept = FALSE,
                            !.pc = "sleep"],
          evs |-> <<>>]
    ELSE LET misses == st.consecutive_misses + 1
             counted == [st EXCEPT !.consecutive_misses = misses]
         IN IF misses >= DISCONNECT_GRACE_CHECKS /\ ~st.has_slept
            THEN IF a.no_sleep
                 THEN [st |-> [counted EXCEPT !.has_slept = TRUE, !.pc = "sleep"],
                       evs |-> <<>>]
                 ELSE LET r == IF FULL_SYSTEM_SLEEP
                               THEN sleep_system(st.n_checks, outcome)
                               ELSE turn_off_display(st.n_checks, outcome)
                      IN IF r.raised
                         THEN [st |-> [counted EXCEPT !.pc = "crashed"], evs |-> r.evs]
                         ELSE [st |-> [counted EXCEPT !.has_slept = TRUE,
                                                      !.pc = "sleep"],
                               evs |-> r.evs]
            ELSE [st |-> [counted EXCEPT !.pc = "sleep"], evs |-> <<>>]

\* connected = is_device_connected(iid); _run_powershell has no handler, so an
\* exception of subprocess.run leaves main()
SleepCheck ==
    /\ prog = "sleep"
    /\ sleep.pc = "check"
    /\ sleep.n_checks < MaxScans
    /\ \E raw \in ConnRaws :
         sleep' = IF raw.exc
                  THEN [sleep EXCEPT !.n_checks = @ + 1, !.pc = "crashed"]
                  ELSE [sleep EXCEPT !.n_checks = @ + 1,
                                     !.connected = sleep_is_device_connected(raw),
                                     !.pc = "decide"]
    /\ UNCHANGED <<prog, settings, original, simple, perfect, args, events, twin, echo>>
    /\ UNCHANGED appVars

SleepDecide ==
    /\ prog = "sleep"
    /\ sleep.pc = "decide"
    /\ \E outcome \in DisplayOutcomes :
         LET r == sleep_main_body(sleep, args, outcome)
         IN /\ sleep' = r.st
            /\ events' = events \o r.evs
    /\ UNCHANGED <<prog, settings, original, simple, perfect, args, twin, echo>>
    /\ UNCHANGED appVars

\* the same step with the break one check late
SleepSleep_late ==
    /\ prog = "sleep"
    /\ sleep.pc = "sleep"
    /\ sleep' = IF args.max_checks # None
                THEN IF sleep.checks_done + 1 > args.max_checks[1]
                     THEN [sleep EXCEPT !.checks_done = @ + 1, !.pc = "done"]
                     ELSE [sleep EXCEPT !.checks_done = @ + 1, !.pc = "check"]
                ELSE [sleep EXCEPT !.pc = "check"]
    /\ UNCHANGED <<prog, settings, original, simple, perfect, args, events, twin, echo>>
    /\ UNCHANGED appVars

\* time.sleep(CHECK_INTERVAL_SEC), then the --max-checks count and break
SleepSleep ==
    /\ prog = "sleep"
    /\ sleep.pc = "sleep"
    /\ sleep' = IF args.max_checks # None
                THEN IF sleep.checks_done + 1 >= args.max_checks[1]
                     THEN [sleep EXCEPT !.checks_done = @ + 1, !.pc = "done"]
                     ELSE [sleep EXCEPT !.checks_done = @ + 1, !.pc = "check"]
                ELSE [sleep EXCEPT !.pc = "check"]
    /\ UNCHANGED <<prog, settings, original, simple, perfect, args, events, twin, echo>>
    /\ UNCHANGED appVars

\* Ctrl+C: except KeyboardInterrupt: pass
SleepInterrupt ==
    /\ prog = "sleep"
    /\ sleep.pc \in {"check", "decide", "sleep"}
    /\ sleep' = [sleep EXCEPT !.pc = "stopped"]
    /\ UNCHANGED <<prog, settings, original, simple, perfect, args, events, twin, echo>>
    /\ UNCHANGED appVars

---------------------------------------------------------------------------
\* app.py: the Flask web app. Flask serves each request in a thread of its
\* own, so handlers interleave with each other and with the monitor threads
\* at every statement that reads or writes a global.

\* requests the server receives in one run
MaxRequests == 3

\* checks one monitor_loop thread performs at most
MaxTicks == 2

\* instance ids a client may post
DeviceIds == {"A", "B"}

\* data.get("device_id") of a start request: missing, empty, or an instance id
PostedIds == {None, Some("")} \cup {Some(d) : d \in DeviceIds}

\* Python's truth value of an Optional string: None and "" are false
TruthyId(id) == id # None /\ id # Some("")

Requests == 1..MaxRequests

\* a thread is created by a start request, so there are no more threads
Threads == 1..MaxRequests

\* the module globals as the import leaves them
MonitorStateInit ==
    [is_monitoring |-> FALSE, device_name |-> None, device_id |-> None,
     is_connected |-> FALSE, last_check |-> None, screen_off |-> FALSE]

\* a thread that no start request has created yet; seed and hit remember the
\* seed probe of its session and whether one of its own checks was connected,
\* asked that stop_monitoring was set to True while the thread was alive
ThreadInit ==
    [pc |-> "unborn", miss_count |-> 0, arg |-> None, connected |-> FALSE,
     ticks |-> 0, seed |-> FALSE, hit |-> FALSE, asked |-> FALSE]

\* a request that has not arrived yet
RequestInit ==
    [pc |-> "none", device_id |-> None, joining |-> 0, seed |-> FALSE]

AppGlobals ==
    /\ monitor_state = MonitorStateInit
    /\ stop_monitoring = FALSE
    /\ monitor_thread = 0
    /\ threads = [t \in Threads |-> ThreadInit]
    /\ requests = [r \in Requests |-> RequestInit]

OUT_OF_RANGE_COUNT == 2

\* what subprocess.run gives run_powershell: an exception, or the stdout
PowershellRaws == [exc : {TRUE}] \cup [exc : {FALSE}, stdout : ConnStatuses]

\* run_powershell: the stripped stdout, "" on any exception
run_powershell(raw) == IF raw.exc THEN "" ELSE raw.stdout

\* is_device_connected; the command for the id None names no device and
\* prints nothing
app_is_device_connected(instance_id, raw) ==
    LET status == IF instance_id = None THEN "" ELSE run_powershell(raw)
    IN  Upper(status) = "OK"

\* threading.Thread.is_alive
is_alive(t) == threads[t].pc \notin {"unborn", "done", "crashed"}

\* the outcomes of the SendMessageW call of turn_off_screen
ScreenOutcomes == {"ok", "raise"}

\* One pass of the while statement of monitor_loop, lines 119-120, after the
\* time.sleep(3) that ended the pass before: the loop is left, the check is
\* skipped for want of a device id, or the check begins.
MonitorWhile ==
    \E t \in Threads :
        /\ threads[t].pc = "l119"
        /\ IF ~stop_monitoring /\ monitor_state.is_monitoring
           THEN /\ threads[t].ticks < MaxTicks
                /\ threads' = [threads EXCEPT ![t].pc =
                      IF monitor_state.device_id # None THEN "l121" ELSE "l119"]
           ELSE threads' = [threads EXCEPT ![t].pc = "l136"]
        /\ UNCHANGED <<prog, events, monitor_state, stop_monitoring, monitor_thread, requests>>
        /\ UNCHANGED cliVars

\* monitor_loop, line 121: the id is read a second time and the probe begins
MonitorProbeCall ==
    \E t \in Threads :
        /\ threads[t].pc = "l121"
        /\ threads' = [threads EXCEPT ![t].pc = "probing",
                                      ![t].arg = monitor_state.device_id,
                                      ![t].ticks = @ + 1]
        /\ UNCHANGED <<prog, events, monitor_state, stop_monitoring, monitor_thread, requests>>
        /\ UNCHANGED cliVars

\* monitor_loop, lines 121-122: the probe returns and is_connected is written
MonitorProbeReturn ==
    \E t \in Threads, raw \in PowershellRaws :
        LET connected == app_is_device_connected(threads[t].arg, raw) IN
        /\ threads[t].pc = "probing"
        /\ threads' = [threads EXCEPT ![t].pc = "l123",
                                      ![t].arg = None,
                                      ![t].connected = connected,
                                      ![t].hit = @ \/ connected]
        /\ monitor_state' = [monitor_state EXCEPT !.is_connected = connected]
        /\ UNCHANGED <<prog, events, stop_monitoring, monitor_thread, requests>>
        /\ UNCHANGED cliVars

\* monitor_loop, lines 123-130: last_check is written (the time of day is the
\* number of the check) and the check is decided; line 134 follows unless
\* the screen is to be turned off
MonitorDecide ==
    \E t \in Threads :
        LET th == threads[t] IN
        /\ th.pc = "l123"
        /\ IF th.connected
           THEN /\ threads' = [threads EXCEPT ![t].pc = "l119", ![t].miss_count = 0]
                /\ monitor_state' = [monitor_state EXCEPT
                      !.last_check = Some(th.ticks), !.screen_off = FALSE]
           ELSE /\ threads' = [threads EXCEPT
                       ![t].miss_count = @ + 1,
                       ![t].pc = IF th.miss_count + 1 >= OUT_OF_RANGE_COUNT
                                    /\ ~monitor_state.screen_off
                                 THEN "l131" ELSE "l119"]
                /\ monitor_state' = [monitor_state EXCEPT !.last_check = Some(th.ticks)]
        /\ UNCHANGED <<prog, events, stop_monitoring, monitor_thread, requests>>
        /\ UNCHANGED cliVars

\* turn_off_screen, called at line 131 with no handler around it: an
\* exception of the call ends the thread, and line 136 is never reached
MonitorTurnOffScreen ==
    \E t \in Threads, outcome \in ScreenOutcomes :
        /\ threads[t].pc = "l131"
        /\ events' = Append(events,
              [tick |-> threads[t].ticks, action |-> "screen_off", outcome |-> outcome,
               thread |-> t, seed |-> threads[t].seed, hit |-> threads[t].hit])
        /\ threads' = [threads EXCEPT ![t] =
              IF outcome = "raise" THEN [ThreadInit EXCEPT !.pc = "crashed"]
              ELSE [@ EXCEPT !.pc = "l132"]]
        /\ UNCHANGED <<prog, monitor_state, stop_monitoring, monitor_thread, requests>>
        /\ UNCHANGED cliVars

\* monitor_loop, line 132, and on to line 134
MonitorScreenOff ==
    \E t \in Threads :
        /\ threads[t].pc = "l132"
        /\ threads' = [threads EXCEPT ![t].pc = "l119"]
        /\ monitor_state' = [monitor_state EXCEPT !.screen_off = TRUE]
        /\ UNCHANGED <<prog, events, stop_monitoring, monitor_thread, requests>>
        /\ UNCHANGED cliVars

\* monitor_loop, line 136: the loop is left and the thread ends
MonitorExit ==
    \E t \in Threads :
        /\ threads[t].pc = "l136"
        /\ threads' = [threads EXCEPT ![t] = [ThreadInit EXCEPT !.pc = "done"]]
        /\ monitor_state' = [monitor_state EXCEPT !.is_monitoring = FALSE]
        /\ UNCHANGED <<prog, events, stop_monitoring, monitor_thread, requests>>
        /\ UNCHANGED cliVars

\* stop_monitoring = True, as the live threads are to see it
AskedToStop ==
    [t \in Threads |->
        IF is_alive(t) THEN [threads[t] EXCEPT !.asked = TRUE] ELSE threads[t]]

\* the request the next arrival uses; requests arrive in order and are served
\* concurrently
NextRequest == Cardinality({r \in Requests : requests[r].pc # "none"}) + 1

\* api_start with stop_monitoring = True ahead of the device id test
ApiStart_stops_first ==
    \E id \in PostedIds :
        LET r == NextRequest IN
        /\ r \in Requests
        /\ stop_monitoring' = TRUE
        /\ threads' = AskedToStop
        /\ IF ~TruthyId(id)
           THEN requests' = [requests EXCEPT ![r].pc = "400"]
           ELSE requests' = [requests EXCEPT
                      ![r].pc = IF monitor_thread # 0 /\ is_alive(monitor_thread)
                                THEN "l174" ELSE "l177",
                      ![r].device_id = id,
                      ![r].joining = monitor_thread]
        /\ UNCHANGED <<prog, events, monitor_state, monitor_thread>>
        /\ UNCHANGED cliVars

\* api_start, lines 164-173: no device id is answered with 400; otherwise the
\* stop flag is set and a live thread is joined
ApiStart ==
    \E id \in PostedIds :
        LET r == NextRequest IN
        /\ r \in Requests
        /\ IF ~TruthyId(id)
           THEN /\ requests' = [requests EXCEPT ![r].pc = "400"]
                /\ UNCHANGED <<stop_monitoring, threads>>
           ELSE /\ stop_monitoring' = TRUE
                /\ threads' = AskedToStop
                /\ requests' = [requests EXCEPT
                      ![r].pc = IF monitor_thread # 0 /\ is_alive(monitor_thread)
                                THEN "l174" ELSE "l177",
                      ![r].device_id = id,
                      ![r].joining = monitor_thread]
        /\ UNCHANGED <<prog, events, monitor_state, monitor_thread>>
        /\ UNCHANGED cliVars

\* api_start, line 174: join(timeout=5) returns when the thread has ended, or
\* after 5 s: the thread's subprocess.run has no timeout, so a probe can
\* outlast the join
ApiStartJoin ==
    \E r \in Requests :
        /\ requests[r].pc = "l174"
        /\ \/ ~is_alive(requests[r].joining)
           \/ threads[requests[r].joining].pc = "probing"
        /\ requests' = [requests EXCEPT ![r].pc = "l177", ![r].joining = 0]
        /\ UNCHANGED <<prog, events, monitor_state, stop_monitoring, monitor_thread, threads>>
        /\ UNCHANGED cliVars

\* api_start, lines 177-180
ApiStartSetState ==
    \E r \in Requests :
        /\ requests[r].pc = "l177"
        /\ stop_monitoring' = FALSE
        /\ monitor_state' = [monitor_state EXCEPT
              !.is_monitoring = TRUE,
              !.device_name = requests[r].device_id,
              !.device_id = requests[r].device_id]
        /\ requests' = [requests EXCEPT ![r].pc = "l181"]
        /\ UNCHANGED <<prog, events, monitor_thread, threads>>
        /\ UNCHANGED cliVars

\* api_start, line 181: the seed probe; its result goes to is_connected and
\* nowhere else
ApiStartSeed ==
    \E r \in Requests, raw \in PowershellRaws :
        LET connected == app_is_device_connected(requests[r].device_id, raw) IN
        /\ requests[r].pc = "l181"
        /\ monitor_state' = [monitor_state EXCEPT !.is_connected = connected]
        /\ requests' = [requests EXCEPT ![r].pc = "l182", ![r].seed = connected]
        /\ UNCHANGED <<prog, events, stop_monitoring, monitor_thread, threads>>
        /\ UNCHANGED cliVars

\* the thread the next Thread(...) call creates
NextThread == Cardinality({t \in Threads : threads[t].pc # "unborn"}) + 1

\* api_start, lines 182-187: screen_off is reset and a new thread starts
ApiStartThread ==
    \E r \in Requests :
        /\ requests[r].pc = "l182"
        /\ monitor_state' = [monitor_state EXCEPT !.screen_off = FALSE]
        /\ threads' = [threads EXCEPT ![NextThread] =
              [ThreadInit EXCEPT !.pc = "l119", !.seed = requests[r].seed]]
        /\ monitor_thread' = NextThread
        /\ requests' = [requests EXCEPT ![r] = [RequestInit EXCEPT !.pc = "200"]]
        /\ UNCHANGED <<prog, events, stop_monitoring>>
        /\ UNCHANGED cliVars

\* api_stop, lines 195-200; the thread is not joined
ApiStop ==
    LET r == NextRequest IN
    /\ r \in Requests
    /\ stop_monitoring' = TRUE
    /\ monitor_state' = [monitor_state EXCEPT
          !.is_monitoring = FALSE, !.device_name = None, !.device_id = None]
    /\ threads' = AskedToStop
    /\ requests' = [requests EXCEPT ![r].pc = "200"]
    /\ UNCHANGED <<prog, events, monitor_thread>>
    /\ UNCHANGED cliVars

---------------------------------------------------------------------------
\* bluelock_simple.py

\* bluelock_simple.is_device_connected; its run_powershell answers "" on any
\* exception
simple_is_device_connected(raw) ==
    Upper(IF raw.exc THEN "" ELSE raw.stdout) = "OK"

\* the locals at the top of monitor_device
SimpleInit ==
    [miss_count |-> 0, screen_off |-> FALSE, connected |-> FALSE, n_checks |-> 0,
     pc |-> "check"]

\* the body of monitor_device's loop between the connection check and
\* time.sleep; turn_off_screen has no handler
simple_monitor_body(st, outcome) ==
    IF st.connected
    THEN [st |-> [st EXCEPT !.miss_count = 0, !.screen_off = FALSE, !.pc = "sleep"],
          evs |-> <<>>]
    ELSE LET counted == [st EXCEPT !.miss_count = @ + 1]
         IN IF counted.miss_count >= OUT_OF_RANGE_COUNT /\ ~st.screen_off
            THEN [st |-> IF outcome = "raise"
                         THEN [counted EXCEPT !.pc = "crashed"]
                         ELSE [counted EXCEPT !.screen_off = TRUE, !.pc = "sleep"],
                  evs |-> <<[tick |-> st.n_checks, action |-> "screen_off",
                             outcome |-> outcome]>>]
            ELSE [st |-> [counted EXCEPT !.pc = "sleep"], evs |-> <<>>]

\* connected = is_device_connected(instance_id)
SimpleCheck ==
    /\ prog = "simple"
    /\ simple.pc = "check"
    /\ simple.n_checks < MaxScans
    /\ \E raw \in PowershellRaws :
         simple' = [simple EXCEPT !.n_checks = @ + 1,
                                  !.connected = simple_is_device_connected(raw),
                                  !.pc = "decide"]
    /\ UNCHANGED <<prog, settings, original, perfect, args, sleep, events, twin, echo>>
    /\ UNCHANGED appVars

SimpleDecide ==
    /\ prog = "simple"
    /\ simple.pc = "decide"
    /\ \E outcome \in ScreenOutcomes :
         LET r == simple_monitor_body(simple, outcome)
         IN /\ simple' = r.st
            /\ events' = events \o r.evs
    /\ UNCHANGED <<prog, settings, original, perfect, args, sleep, twin, echo>>
    /\ UNCHANGED appVars

\* time.sleep(CHECK_INTERVAL)
SimpleSleep ==
    /\ prog = "simple"
    /\ simple.pc = "sleep"
    /\ simple' = [simple EXCEPT !.pc = "check"]
    /\ UNCHANGED <<prog, settings, original, perfect, args, sleep, events, twin, echo>>
    /\ UNCHANGED appVars

\* Ctrl+C: except KeyboardInterrupt
SimpleInterrupt ==
    /\ prog = "simple"
    /\ simple.pc \in {"check", "decide", "sleep"}
    /\ simple' = [simple EXCEPT !.pc = "stopped"]
    /\ UNCHANGED <<prog, settings, original, perfect, args, sleep, events, twin, echo>>
    /\ UNCHANGED appVars

---------------------------------------------------------------------------
\* archive/bluelock_original.py

\* What one _optimized_scan meets: found is what the detection callback stored
\* (nothing when the device did not advertise), exc whether start, the wait or
\* stop raised.
OriginalScans == [found : OptRssi, exc : BOOLEAN]

\* OptimizedBlueLock() and the top of monitor; scans counts the passes of the
\* loop, total_scans is _scan_stats['total_scans']
OriginalInit ==
    [device_in_range |-> TRUE, consecutive_misses |-> 0, consecutive_hits |-> 0,
     rssi |-> None, total_scans |-> 0, scans |-> 0, pc |-> "scan"]

\* the miss threshold of monitor: the quotient alone
original_required_misses(s) == s.MIN_OUT_OF_RANGE_TIME \div s.SCAN_INTERVAL

\* _execute_system_action behind the settings.ENABLE_LOCK / ENABLE_WAKE test of
\* monitor; CalledProcessError and TimeoutExpired are caught
original_action(action, s, tick, outcome) ==
    IF (action = "lock" /\ s.ENABLE_LOCK) \/ (action = "wake" /\ s.ENABLE_WAKE)
    THEN <<[tick |-> tick, action |-> action, outcome |-> outcome]>>
    ELSE <<>>

\* the body of monitor's loop from the scan's return to the sleep; the stats
\* line divides by total_scans whenever total_scans % 10 == 0
original_monitor_body(m, s, outcome) ==
    LET after == IF m.total_scans % 10 = 0 /\ m.total_scans = 0
                 THEN "crashed" ELSE "sleep"
    IN IF m.rssi # None
       THEN LET back == ~m.device_in_range /\ m.consecutive_hits + 1 >= 2
            IN [mon |-> [m EXCEPT !.consecutive_misses = 0,
                                  !.consecutive_hits = @ + 1,
                                  !.device_in_range = IF back THEN TRUE ELSE @,
                                  !.pc = after],
                evs |-> IF back THEN original_action("wake", s, m.scans, outcome)
                        ELSE <<>>]
       ELSE LET out == /\ m.device_in_range
                       /\ m.consecutive_misses + 1 >= original_required_misses(s)
            IN [mon |-> [m EXCEPT !.consecutive_hits = 0,
                                  !.consecutive_misses = @ + 1,
                                  !.device_in_range = IF out THEN FALSE ELSE @,
                                  !.pc = after],
                evs |-> IF out THEN original_action("lock", s, m.scans, outcome)
                        ELSE <<>>]

\* rssi = await self._optimized_scan(...): found_rssi is returned whether or not
\* the scan raised; total_scans counts only the scans that did not
OriginalScan ==
    /\ prog = "original"
    /\ original.pc = "scan"
    /\ original.scans < MaxScans
    /\ \E raw \in OriginalScans :
         original' = [original EXCEPT
                         !.scans = @ + 1,
                         !.rssi = raw.found,
                         !.total_scans = IF raw.exc THEN @ ELSE @ + 1,
                         !.pc = "decide"]
    /\ UNCHANGED <<prog, settings, perfect, args, sleep, simple, events, twin, echo>>
    /\ UNCHANGED appVars

OriginalDecide ==
    /\ prog = "original"
    /\ original.pc = "decide"
    /\ \E outcome \in CommandOutcomes :
         LET r == original_monitor_body(original, settings, outcome)
         IN /\ original' = r.mon
            /\ events' = events \o r.evs
    /\ UNCHANGED <<prog, settings, perfect, args, sleep, simple, twin, echo>>
    /\ UNCHANGED appVars

\* await asyncio.sleep(settings.SCAN_INTERVAL)
OriginalSleep ==
    /\ prog = "original"
    /\ original.pc = "sleep"
    /\ original' = [original EXCEPT !.pc = "scan"]
    /\ UNCHANGED <<prog, settings, perfect, args, sleep, simple, events, twin, echo>>
    /\ UNCHANGED appVars

\* Ctrl+C: except KeyboardInterrupt
OriginalInterrupt ==
    /\ prog = "original"
    /\ original.pc \in {"scan", "decide", "sleep"}
    /\ original' = [original EXCEPT !.pc = "stopped"]
    /\ UNCHANGED <<prog, settings, perfect, args, sleep, simple, events, twin, echo>>
    /\ UNCHANGED appVars

---------------------------------------------------------------------------
\* api_status, lines 153-156: the answer is made from the dictionary itself,
\* as the threads have left it at the moment of the request; nothing is
\* copied under a lock
api_status == monitor_state

---------------------------------------------------------------------------
\* archive/bluelock_web_old.py. bluelock_instance is created once, when the
\* module is imported, and lives as long as the server; every start creates a
\* thread that runs monitoring_loop.

\* requests to /api/start and /api/stop in one run
MaxWebRequests == 3

\* scans of one monitoring_loop thread
MaxWebScans == 3

WebLoops == 1..MaxWebRequests

\* what enhanced_scan_for_device returns: it catches every exception itself
WebRssis == {None, Some(0 - 60)}

\* a thread that no start has created yet
WebLoopInit ==
    [pc |-> "unborn", consecutive_misses |-> 0, consecutive_hits |-> 0,
     rssi |-> None, scans |-> 0]

\* the globals after the import: EnhancedBlueLock.__init__ sets device_in_range
\* to False
WebIdle ==
    [monitoring_active |-> FALSE, device_in_range |-> FALSE, target_device |-> FALSE,
     handled |-> 0, loops |-> [l \in WebLoops |-> WebLoopInit]]

\* what _load_config finds in the saved configuration
WebInits == {[WebIdle EXCEPT !.target_device = d] : d \in BOOLEAN}

\* the thread the next threading.Thread(...) call creates
NextWebLoop == Cardinality({l \in WebLoops : web.loops[l].pc # "unborn"}) + 1

\* start_monitoring: an error without a device or while monitoring; otherwise
\* the flag is set and a thread starts. bluelock_instance is left as it is.
WebStartMonitoring ==
    /\ prog = "web"
    /\ web.handled < MaxWebRequests
    /\ web' = IF ~web.target_device \/ web.monitoring_active
              THEN [web EXCEPT !.handled = @ + 1]
              ELSE [web EXCEPT !.handled = @ + 1,
                               !.monitoring_active = TRUE,
                               !.loops[NextWebLoop] = [WebLoopInit EXCEPT !.pc = "while"]]
    /\ UNCHANGED <<prog, settings, perfect, args, sleep, simple, original, events, twin, echo>>
    /\ UNCHANGED <<monitor_state, stop_monitoring, monitor_thread, threads, requests, gui, pick>>

\* stop_monitoring: the flag is cleared, nothing else
WebStopMonitoring ==
    /\ prog = "web"
    /\ web.handled < MaxWebRequests
    /\ web' = [web EXCEPT !.handled = @ + 1, !.monitoring_active = FALSE]
    /\ UNCHANGED <<prog, settings, perfect, args, sleep, simple, original, events, twin, echo>>
    /\ UNCHANGED <<monitor_state, stop_monitoring, monitor_thread, threads, requests, gui, pick>>

\* monitoring_loop, line 108, after the time.sleep that ended the pass before
WebLoopWhile ==
    \E l \in WebLoops :
        /\ prog = "web"
        /\ web.loops[l].pc = "while"
        /\ IF web.monitoring_active
           THEN /\ web.loops[l].scans < MaxWebScans
                /\ web' = [web EXCEPT !.loops[l].pc = "scan"]
           ELSE web' = [web EXCEPT !.loops[l] = [WebLoopInit EXCEPT !.pc = "done"]]
        /\ UNCHANGED <<prog, settings, perfect, args, sleep, simple, original, events, twin, echo>>
        /\ UNCHANGED <<monitor_state, stop_monitoring, monitor_thread, threads, requests, gui, pick>>

\* monitoring_loop, lines 110-116: the scan
WebLoopScan ==
    \E l \in WebLoops, rssi \in WebRssis :
        /\ prog = "web"
        /\ web.loops[l].pc = "scan"
        /\ web' = [web EXCEPT !.loops[l].pc = "decide",
                              !.loops[l].rssi = rssi,
                              !.loops[l].scans = @ + 1]
        /\ UNCHANGED <<prog, settings, perfect, args, sleep, simple, original, events, twin, echo>>
        /\ UNCHANGED <<monitor_state, stop_monitoring, monitor_thread, threads, requests, gui, pick>>

\* monitoring_loop, line 140
web_required_misses == settings.MIN_OUT_OF_RANGE_TIME \div settings.SCAN_INTERVAL

\* monitoring_loop, lines 118-147: the scan is judged and time.sleep follows.
\* _execute_system_action swallows the exception of a failed command.
WebLoopDecide ==
    \E l \in WebLoops :
        LET lp == web.loops[l]
            misses == lp.consecutive_misses + 1
            hits == lp.consecutive_hits + 1
            wake == lp.rssi # None /\ ~web.device_in_range /\ hits >= 2
            lock == lp.rssi = None /\ web.device_in_range /\ misses >= web_required_misses
        IN
        /\ prog = "web"
        /\ lp.pc = "decide"
        /\ web' = [web EXCEPT
              !.device_in_range = IF wake THEN TRUE ELSE IF lock THEN FALSE ELSE @,
              !.loops[l] = [lp EXCEPT
                  !.pc = "while",
                  !.rssi = None,
                  !.consecutive_misses = IF lp.rssi # None THEN 0 ELSE misses,
                  !.consecutive_hits = IF lp.rssi # None THEN hits ELSE 0]]
        /\ events' = IF wake /\ settings.ENABLE_WAKE
                     THEN Append(events, [loop |-> l, action |-> "wake"])
                     ELSE IF lock /\ settings.ENABLE_LOCK
                     THEN Append(events, [loop |-> l, action |-> "lock"])
                     ELSE events
        /\ UNCHANGED <<prog, settings, perfect, args, sleep, simple, original, twin, echo>>
        /\ UNCHANGED <<monitor_state, stop_monitoring, monitor_thread, threads, requests, gui, pick>>

---------------------------------------------------------------------------
\* main/bluelock_gui.py. The buttons run on the Tk thread, one callback at a
\* time; every start creates a thread that runs _monitoring_loop. Time passes
\* in half seconds while every live thread is inside time.sleep.

\* presses of the Start and Stop buttons in one run
MaxClicks == 4

Loops == 1..MaxClicks

\* a thread that no start has created yet; remaining is what is left of its
\* time.sleep, asked that Stop was pressed during that sleep, waited the time
\* the thread has lived on since
LoopInit == [pc |-> "unborn", remaining |-> 0, asked |-> FALSE, waited |-> 0]

\* BlueLockGUI.__init__, before load_saved_device
GuiIdle ==
    [is_monitoring |-> FALSE, selected_device |-> FALSE, clicks |-> 0,
     loops |-> [l \in Loops |-> LoopInit]]

\* what load_saved_device finds in the saved configuration
GuiInits == {[GuiIdle EXCEPT !.selected_device = d] : d \in BOOLEAN}

\* the thread the next threading.Thread(...) call creates
NextLoop == Cardinality({l \in Loops : gui.loops[l].pc # "unborn"}) + 1

\* start_monitoring: nothing without a device or while monitoring; otherwise
\* the flag is set and a thread starts. The thread of an earlier session is
\* neither looked at nor joined.
GuiStartMonitoring ==
    /\ prog = "gui"
    /\ gui.clicks < MaxClicks
    /\ gui' = IF ~gui.selected_device \/ gui.is_monitoring
              THEN [gui EXCEPT !.clicks = @ + 1]
              ELSE [gui EXCEPT !.clicks = @ + 1,
                               !.is_monitoring = TRUE,
                               !.loops[NextLoop] = [LoopInit EXCEPT !.pc = "while"]]
    /\ UNCHANGED <<prog, settings, perfect, args, sleep, simple, original, events, twin, echo>>
    /\ UNCHANGED <<monitor_state, stop_monitoring, monitor_thread, threads, requests, web, pick>>

\* stop_monitoring: the flag is cleared; no thread is joined
GuiStopMonitoring ==
    /\ prog = "gui"
    /\ gui.clicks < MaxClicks
    /\ gui' = IF ~gui.is_monitoring
              THEN [gui EXCEPT !.clicks = @ + 1]
              ELSE [gui EXCEPT
                       !.clicks = @ + 1,
                       !.is_monitoring = FALSE,
                       !.loops = [l \in Loops |->
                                    IF gui.loops[l].pc = "sleeping"
                                    THEN [gui.loops[l] EXCEPT !.asked = TRUE]
                                    ELSE gui.loops[l]]]
    /\ UNCHANGED <<prog, settings, perfect, args, sleep, simple, original, events, twin, echo>>
    /\ UNCHANGED <<monitor_state, stop_monitoring, monitor_thread, threads, requests, web, pick>>

\* _monitoring_loop, line 418: while self.is_monitoring
GuiLoopWhile ==
    \E l \in Loops :
        /\ prog = "gui"
        /\ gui.loops[l].pc = "while"
        /\ gui' = [gui EXCEPT !.loops[l] =
                     IF gui.is_monitoring THEN [@ EXCEPT !.pc = "scan", !.asked = FALSE,
                                                         !.waited = 0]
                     ELSE [LoopInit EXCEPT !.pc = "done"]]
        /\ UNCHANGED <<prog, settings, perfect, args, sleep, simple, original, events, twin, echo>>
        /\ UNCHANGED <<monitor_state, stop_monitoring, monitor_thread, threads, requests, web, pick>>

\* _monitoring_loop, lines 419-478: self.bluelock is an EnhancedBlueLock, which
\* has no _optimized_scan, so line 425 raises AttributeError in every pass; the
\* handler of line 475 logs it and sleeps settings.SCAN_INTERVAL
GuiLoopScan ==
    \E l \in Loops :
        /\ prog = "gui"
        /\ gui.loops[l].pc = "scan"
        /\ gui' = [gui EXCEPT !.loops[l].pc = "sleeping",
                              !.loops[l].remaining = settings.SCAN_INTERVAL]
        /\ UNCHANGED <<prog, settings, perfect, args, sleep, simple, original, events, twin, echo>>
        /\ UNCHANGED <<monitor_state, stop_monitoring, monitor_thread, threads, requests, web, pick>>

\* time.sleep(settings.SCAN_INTERVAL) returns when all of it has passed
GuiLoopWake ==
    \E l \in Loops :
        /\ prog = "gui"
        /\ gui.loops[l].pc = "sleeping"
        /\ gui.loops[l].remaining = 0
        /\ gui' = [gui EXCEPT !.loops[l].pc = "while"]
        /\ UNCHANGED <<prog, settings, perfect, args, sleep, simple, original, events, twin, echo>>
        /\ UNCHANGED <<monitor_state, stop_monitoring, monitor_thread, threads, requests, web, pick>>

\* save_settings of the settings window, lines 578-590: the interval typed and
\* the two check boxes are written into the settings module, whether a thread
\* is monitoring or not
GuiSaveSettings ==
    \E interval \in ScanIntervals, lock_var \in BOOLEAN, wake_var \in BOOLEAN :
        /\ prog = "gui"
        /\ gui.clicks < MaxClicks
        /\ gui' = [gui EXCEPT !.clicks = @ + 1]
        /\ settings' = [settings EXCEPT !.SCAN_INTERVAL = interval,
                                        !.ENABLE_LOCK = lock_var,
                                        !.ENABLE_WAKE = wake_var]
        /\ UNCHANGED <<prog, perfect, args, sleep, simple, original, events, twin, echo>>
        /\ UNCHANGED <<monitor_state, stop_monitoring, monitor_thread, threads, requests, web, pick>>

\* half a second passes: no thread has a statement to run, some thread sleeps
GuiTime ==
    /\ prog = "gui"
    /\ \A l \in Loops : /\ gui.loops[l].pc \in {"unborn", "sleeping", "done"}
                        /\ gui.loops[l].pc = "sleeping" => gui.loops[l].remaining > 0
    /\ \E l \in Loops : gui.loops[l].pc = "sleeping"
    /\ gui' = [gui EXCEPT !.loops =
                 [l \in Loops |->
                    IF gui.loops[l].pc = "sleeping"
                    THEN [gui.loops[l] EXCEPT
                             !.remaining = @ - 1,
                             !.waited = IF gui.loops[l].asked THEN @ + 1 ELSE @]
                    ELSE gui.loops[l]]]
    /\ UNCHANGED <<prog, settings, perfect, args, sleep, simple, original, events, twin, echo>>
    /\ UNCHANGED <<monitor_state, stop_monitoring, monitor_thread, threads, requests, web, pick>>

---------------------------------------------------------------------------
\* sleep_on_disconnect.py: pick_device and the config file. pick_device runs
\* once, at the start of main(), before the loop.

\* the most devices Windows reports as connected in one call
MaxDevices == 2

\* the --device-id word main() hands over: none, an empty word, an instance id
Overrides == {None, Some(""), Some("X")}

\* what list_connected_bt_devices returns: name and instance_id of each device
\* with Status OK, in the order PowerShell lists them
ConnectedDevices ==
    {[name |-> "Headset", instance_id |-> "H"],
     [name |-> "EARBUDS", instance_id |-> "E"],
     [name |-> "Keyboard", instance_id |-> "K"]}

RECURSIVE DeviceListsOf(_)
DeviceListsOf(n) ==
    IF n = 0 THEN {<<>>}
    ELSE LET shorter == DeviceListsOf(n - 1)
         IN shorter \cup
            {Append(l, d) : l \in {x \in shorter : Len(x) = n - 1},
                            d \in ConnectedDevices}

\* no device is listed twice
DeviceLists ==
    {l \in DeviceListsOf(MaxDevices) :
        \A i, j \in 1..Len(l) : l[i] = l[j] => i = j}

\* sleep_config.json: missing, not a JSON object, or an object with or without
\* the keys name and instance_id
NoFile == [kind |-> "absent", name |-> None, instance_id |-> None]
BadFile == [kind |-> "garbage", name |-> None, instance_id |-> None]
ConfigFiles ==
    {NoFile, BadFile,
     [kind |-> "dict", name |-> Some("Old"), instance_id |-> None],
     [kind |-> "dict", name |-> Some("Old"), instance_id |-> Some("")],
     [kind |-> "dict", name |-> Some("Pinned"), instance_id |-> Some("P")],
     [kind |-> "dict", name |-> None, instance_id |-> Some("P")]}

\* load_config: the pinned device of the file, or None
load_config(file) ==
    IF file.kind = "dict" /\ file.instance_id # None /\ file.instance_id # Some("")
    THEN Some([name |-> IF file.name = None THEN "Bluetooth Device" ELSE file.name[1],
               instance_id |-> file.instance_id[1]])
    ELSE None

\* what one call of save_config does to the file: the object is written; or
\* open() raises and the file stays as it was; or the write raises after open()
\* has truncated the file. The exception is swallowed in every case.
SaveOutcomes == {"written", "refused", "cut"}

save_config(file, device, outcome) ==
    CASE outcome = "written" ->
            [kind |-> "dict", name |-> Some(device.name),
             instance_id |-> Some(device.instance_id)]
      [] outcome = "refused" -> file
      [] OTHER -> BadFile

\* the keywords of a preferred device
Keywords == {"audio", "head", "ear", "buds", "speaker"}

\* str.lower() on the names of the model
lower(name) ==
    CASE name = "Headset" -> "headset"
      [] name = "EARBUDS" -> "earbuds"
      [] name = "Keyboard" -> "keyboard"
      [] OTHER -> name

\* k in name, on the names of the model: the pairs where the word occurs
in_(k, name) ==
    <<k, name>> \in {<<"head", "headset">>, <<"ear", "earbuds">>, <<"buds", "earbuds">>}

\* any(k in d["name"].lower() for k in (...))
is_preferred(d) == \E k \in Keywords : in_(k, lower(d.name))

\* pick_device with the pinned config consulted before the override
pick_device_config_first(override, file, devices, outcome) ==
    LET cfg == load_config(file)
        preferred == SelectSeq(devices, is_preferred)
        selected == IF preferred # <<>> THEN preferred[1] ELSE devices[1]
        device == [name |-> "Pinned Bluetooth Device", instance_id |-> override[1]]
    IN IF cfg # None /\ cfg[1].instance_id # ""
       THEN [device |-> cfg, file |-> file, saved |-> <<>>]
       ELSE IF override # None /\ override # Some("")
       THEN [device |-> Some(device), file |-> save_config(file, device, outcome),
             saved |-> <<device>>]
       ELSE IF devices = <<>>
       THEN [device |-> None, file |-> file, saved |-> <<>>]
       ELSE [device |-> Some(selected), file |-> save_config(file, selected, outcome),
             saved |-> <<selected>>]

\* pick_device: the device returned, the file afterwards, and the devices
\* save_config was called with
pick_device(override, file, devices, outcome) ==
    LET cfg == load_config(file)
        preferred == SelectSeq(devices, is_preferred)
        selected == IF preferred # <<>> THEN preferred[1] ELSE devices[1]
        device == [name |-> "Pinned Bluetooth Device", instance_id |-> override[1]]
    IN IF override # None /\ override # Some("")
       THEN [device |-> Some(device), file |-> save_config(file, device, outcome),
             saved |-> <<device>>]
       ELSE IF cfg # None /\ cfg[1].instance_id # ""
       THEN [device |-> cfg, file |-> file, saved |-> <<>>]
       ELSE IF devices = <<>>
       THEN [device |-> None, file |-> file, saved |-> <<>>]
       ELSE [device |-> Some(selected), file |-> save_config(file, selected, outcome),
             saved |-> <<selected>>]

\* before: the file as the call found it; outcome: what the save did
PickIdle ==
    [pc |-> "idle", override |-> None, file |-> NoFile, before |-> NoFile,
     devices |-> <<>>, device |-> None, saved |-> <<>>, outcome |-> "none"]

PickInits ==
    {[PickIdle EXCEPT !.pc = "call", !.override = o, !.file = f, !.before = f,
                      !.devices = l] :
        o \in Overrides, f \in ConfigFiles, l \in DeviceLists}

\* device = pick_device(override_instance_id=override_id), line 176
PickDevice ==
    /\ prog = "pick"
    /\ pick.pc = "call"
    /\ \E outcome \in SaveOutcomes :
         LET r == pick_device(pick.override, pick.file, pick.devices, outcome)
         IN pick' = [pick EXCEPT !.pc = "returned", !.device = r.device,
                                 !.file = r.file, !.saved = r.saved,
                                 !.outcome = IF r.saved = <<>> THEN "none" ELSE outcome]
    /\ UNCHANGED <<prog, settings, perfect, args, sleep, simple, original, events, twin, echo>>
    /\ UNCHANGED <<monitor_state, stop_monitoring, monitor_thread, threads, requests, gui, web>>

---------------------------------------------------------------------------
\* One run of a command-line monitor.

\* the second run starts like the first; its ENABLE_LOCK may differ. swapped
\* records that some scan was Absent in one run and a ProbeError in the other.
TwinInit(s) ==
    {[m |-> PerfectInit, events |-> <<>>, swapped |-> FALSE,
      settings |-> [s EXCEPT !.ENABLE_LOCK = l]] : l \in BOOLEAN}

\* the third run starts like the first, under the same settings; reread
\* records that some scan carried another reading than in the first run. A
\* run of the script is compared with one other run: with the third run when
\* on is set, with the second otherwise. The comparison of readings is made
\* under the shipped settings.
EchoInit == [m |-> PerfectInit, events |-> <<>>, reread |-> FALSE, on |-> FALSE]

Init ==
    /\ \/ /\ prog = "perfect"
          /\ settings \in SettingsValues
          /\ args = NoArgs
          /\ \/ /\ twin \in TwinInit(settings)
                /\ echo = EchoInit
             \/ /\ settings = ShippedSettings
                /\ twin \in {t \in TwinInit(settings) : t.settings = settings}
                /\ echo = [EchoInit EXCEPT !.on = TRUE]
       \/ /\ prog = "sleep"
          /\ settings = ShippedSettings
          /\ args \in ArgsValues
          /\ twin \in {t \in TwinInit(settings) : t.settings = settings}
          /\ echo = EchoInit
       \/ /\ prog = "simple"
          /\ settings = ShippedSettings
          /\ args = NoArgs
          /\ twin \in {t \in TwinInit(settings) : t.settings = settings}
          /\ echo = EchoInit
       \/ /\ prog = "original"
          /\ settings \in SettingsValues
          /\ args = NoArgs
          /\ twin \in {t \in TwinInit(settings) : t.settings = settings}
          /\ echo = EchoInit
    /\ perfect = PerfectInit
    /\ sleep = SleepInit
    /\ simple = SimpleInit
    /\ original = OriginalInit
    /\ events = <<>>
    /\ AppGlobals
    /\ gui = GuiIdle
    /\ web = WebIdle
    /\ pick = PickIdle

Next ==
    \/ PerfectScan
    \/ PerfectDecide
    \/ PerfectSleep
    \/ PerfectInterrupt
    \/ SleepCheck
    \/ SleepDecide
    \/ SleepSleep
    \/ SleepInterrupt
    \/ SimpleCheck
    \/ SimpleDecide
    \/ SimpleSleep
    \/ SimpleInterrupt
    \/ OriginalScan
    \/ OriginalDecide
    \/ OriginalSleep
    \/ OriginalInterrupt

Spec == Init /\ [][Next]_vars

---------------------------------------------------------------------------
\* One run of the web app.

AppInit ==
    /\ prog = "app"
    /\ settings = ShippedSettings
    /\ args = NoArgs
    /\ perfect = PerfectInit
    /\ sleep = SleepInit
    /\ simple = SimpleInit
    /\ original = OriginalInit
    /\ twin = [m |-> PerfectInit, events |-> <<>>, swapped |-> FALSE,
               settings |-> ShippedSettings]
    /\ events = <<>>
    /\ echo = EchoInit
    /\ AppGlobals
    /\ gui = GuiIdle
    /\ web = WebIdle
    /\ pick = PickIdle

AppNext ==
    \/ ApiStart
    \/ ApiStartJoin
    \/ ApiStartSetState
    \/ ApiStartSeed
    \/ ApiStartThread
    \/ ApiStop
    \/ MonitorWhile
    \/ MonitorProbeCall
    \/ MonitorProbeReturn
    \/ MonitorDecide
    \/ MonitorTurnOffScreen
    \/ MonitorScreenOff
    \/ MonitorExit

SpecApp == AppInit /\ [][AppNext]_vars

---------------------------------------------------------------------------
\* One run of the desktop app.

GuiInit ==
    /\ prog = "gui"
    /\ settings \in {v \in SettingsValues : v.ENABLE_LOCK /\ v.ENABLE_WAKE}
    /\ args = NoArgs
    /\ perfect = PerfectInit
    /\ sleep = SleepInit
    /\ simple = SimpleInit
    /\ original = OriginalInit
    /\ twin = [m |-> PerfectInit, events |-> <<>>, swapped |-> FALSE,
               settings |-> ShippedSettings]
    /\ events = <<>>
    /\ echo = EchoInit
    /\ AppGlobals
    /\ gui \in GuiInits
    /\ web = WebIdle
    /\ pick = PickIdle

GuiNext ==
    \/ GuiStartMonitoring
    \/ GuiStopMonitoring
    \/ GuiLoopWhile
    \/ GuiLoopScan
    \/ GuiLoopWake
    \/ GuiSaveSettings
    \/ GuiTime

SpecGui == GuiInit /\ [][GuiNext]_vars

---------------------------------------------------------------------------
\* One run of the old web interface.

WebInit ==
    /\ prog = "web"
    /\ settings \in SettingsValues
    /\ args = NoArgs
    /\ perfect = PerfectInit
    /\ sleep = SleepInit
    /\ simple = SimpleInit
    /\ original = OriginalInit
    /\ twin = [m |-> PerfectInit, events |-> <<>>, swapped |-> FALSE,
               settings |-> ShippedSettings]
    /\ events = <<>>
    /\ echo = EchoInit
    /\ AppGlobals
    /\ gui = GuiIdle
    /\ web \in WebInits
    /\ pick = PickIdle

WebNext ==
    \/ WebStartMonitoring
    \/ WebStopMonitoring
    \/ WebLoopWhile
    \/ WebLoopScan
    \/ WebLoopDecide

SpecWeb == WebInit /\ [][WebNext]_vars

---------------------------------------------------------------------------
\* One call of pick_device.

PickInit ==
    /\ prog = "pick"
    /\ settings = ShippedSettings
    /\ args = NoArgs
    /\ perfect = PerfectInit
    /\ sleep = SleepInit
    /\ simple = SimpleInit
    /\ original = OriginalInit
    /\ twin = [m |-> PerfectInit, events |-> <<>>, swapped |-> FALSE,
               settings |-> ShippedSettings]
    /\ events = <<>>
    /\ echo = EchoInit
    /\ AppGlobals
    /\ gui = GuiIdle
    /\ web = WebIdle
    /\ pick \in PickInits

PickNext == PickDevice

SpecPick == PickInit /\ [][PickNext]_vars

---------------------------------------------------------------------------
\* Claims about the command-line monitors (Spec).

\* the invocation a step appended to the log, when it appended exactly one
Invoked(action) ==
    /\ Len(events') = Len(events) + 1
    /\ SubSeq(events', 1, Len(events)) = events
    /\ events'[Len(events')].action = action

\* C1: debounce correctness. From phase InRange, the phase flips to OutOfRange
\* exactly at the tick whose miss brings consecutive_misses to the miss threshold:
\* never while the count is below it, and the count never passes it in range. The
\* lock is invoked once at that tick (when enabled) and at no other miss.
C1_DebounceExact ==
    [][(prog = "perfect" /\ perfect.device_in_range) =>
          LET missed == perfect'.consecutive_misses = perfect.consecutive_misses + 1
              reached == perfect'.consecutive_misses >= required_misses(settings)
          IN /\ perfect.consecutive_misses < required_misses(settings)
             /\ (~perfect'.device_in_range) <=> (missed /\ reached)
             /\ IF ~perfect'.device_in_range
                THEN /\ perfect'.consecutive_misses = required_misses(settings)
                     /\ IF settings.ENABLE_LOCK
                        THEN /\ Invoked("lock")
                             /\ events'[Len(events')].tick = perfect.scan_count
                        ELSE events' = events
                ELSE events' = events]_vars

\* C1 witness: threshold 2, probes Present, Absent, Absent, Present from InRange:
\* the lock was invoked at the second miss (scan 4) and the next detection (scan 5)
\* left the phase OutOfRange and invoked nothing.
C1_Witness ==
    /\ prog = "perfect"
    /\ required_misses(settings) = 2
    /\ perfect.scan_count = 5
    /\ perfect.pc = "sleep"
    /\ perfect.consecutive_hits = 1
    /\ ~perfect.device_in_range
    /\ Len(events) = 2
    /\ events[2].action = "lock" /\ events[2].tick = 4

\* C2: symmetric recovery. While the phase is OutOfRange, the detection that makes
\* REQUIRED_HITS consecutive ones flips the phase to InRange and invokes wake once
\* (when enabled); every other detection leaves the phase and invokes nothing.
C2_SymmetricRecovery ==
    [][(prog = "perfect" /\ perfect'.consecutive_hits = perfect.consecutive_hits + 1) =>
          IF ~perfect.device_in_range /\ perfect'.consecutive_hits >= REQUIRED_HITS
          THEN /\ perfect'.device_in_range
               /\ IF settings.ENABLE_WAKE THEN Invoked("wake") ELSE events' = events
          ELSE /\ perfect'.device_in_range = perfect.device_in_range
               /\ events' = events]_vars

\* C2 witness: after a lock, two detections flipped back and invoked wake, and a
\* third detection followed without any invocation.
C2_Witness ==
    /\ prog = "perfect"
    /\ perfect.device_in_range
    /\ perfect.consecutive_hits >= 3
    /\ Len(events) = 3
    /\ events[2].action = "lock"
    /\ events[3].action = "wake"

\* the absent actions and the present action
ActionClass(e) == IF e.action = "wake" THEN "present" ELSE "absent"

C4_OneLoopAtATime ==
    Cardinality({t \in Threads : threads[t].pc \in {"probing", "l131"}}) <= 1

\* C5 as stated: while the stop flag of the web app is set, no step invokes an
\* action.
C5_NoActionAfterStop == [][stop_monitoring => events' = events]_vars

\* C6: ProbeError equals Absent. A second run whose probe sequence differs from the
\* first only in which misses are Absent and which are ProbeError has the same
\* phase and counters after every scan and, under the same settings, the same
\* action invocations.
C6_ProbeErrorAsAbsent ==
    prog = "perfect" =>
        /\ twin.m.device_in_range = perfect.device_in_range
        /\ twin.m.consecutive_misses = perfect.consecutive_misses
        /\ twin.m.consecutive_hits = perfect.consecutive_hits
        /\ twin.settings = settings => twin.events = events

\* C6 witness: the runs differed in the kind of a miss and both locked.
C6_Witness ==
    /\ prog = "perfect"
    /\ twin.swapped
    /\ twin.settings = settings
    /\ ~perfect.device_in_range
    /\ \E i \in 1..Len(events) : events[i].action = "lock"

\* C7 as stated: no failure of a probe or of an action ends a monitoring loop,
\* neither a monitor_loop thread of the web app nor sleep_on_disconnect's main.
C7_FailureNeverEndsLoop ==
    /\ \A t \in Threads : threads[t].pc # "crashed"
    /\ sleep.pc # "crashed"

\* C8 as stated: a session of the web app whose seed probe missed, and whose
\* checks have all missed since, has invoked no action.
C8_NoActionForInitialAbsence ==
    \A i \in 1..Len(events) : events[i].seed \/ events[i].hit

\* C9 as stated: while every probe since the start was Present, no action has been
\* invoked.
C9_NoActionWhilePresent ==
    (/\ prog = "perfect"
     /\ perfect.pc \in {"scan", "sleep"}
     /\ perfect.consecutive_hits = perfect.scan_count) => events = <<>>

\* C10: disabled lock action. With ENABLE_LOCK off no lock is ever invoked, while
\* the phase and the counters are those of the run with ENABLE_LOCK on; with
\* --no-sleep nothing is invoked and the latch is still set at the second miss.
C10_DisabledLock ==
    /\ (prog = "perfect" /\ ~settings.ENABLE_LOCK) =>
          /\ \A i \in 1..Len(events) : events[i].action # "lock"
          /\ twin.m.device_in_range = perfect.device_in_range
          /\ twin.m.consecutive_misses = perfect.consecutive_misses
          /\ twin.m.consecutive_hits = perfect.consecutive_hits
    /\ (prog = "sleep" /\ args.no_sleep) =>
          /\ events = <<>>
          /\ sleep.consecutive_misses >= DISCONNECT_GRACE_CHECKS => sleep.has_slept

\* C10 witness: the run with ENABLE_LOCK off went out of range without a lock
\* where the run with ENABLE_LOCK on invoked it.
C10_Witness ==
    /\ prog = "perfect"
    /\ ~settings.ENABLE_LOCK
    /\ twin.settings.ENABLE_LOCK
    /\ ~perfect.device_in_range
    /\ perfect.consecutive_misses >= required_misses(settings)
    /\ \E i \in 1..Len(twin.events) : twin.events[i].action = "lock"

\* C11 as stated: exactly one of the two counters is nonzero at any time.
C11_ExactlyOneNonzero ==
    prog = "perfect" =>
        (perfect.consecutive_misses # 0) # (perfect.consecutive_hits # 0)

\* C11: counter invariant. The two counters are never both nonzero, and both are
\* zero only before the first scan is judged. The step that judges a detection
\* sets consecutive_misses to 0 and adds 1 to consecutive_hits; the step that
\* judges a miss (nothing seen, or the scan failed) sets consecutive_hits to 0 and
\* adds 1 to consecutive_misses; no other step changes a counter.
C11_CounterInvariant ==
    [][prog = "perfect" =>
          LET m == perfect
              n == perfect'
          IN /\ ~(n.consecutive_misses # 0 /\ n.consecutive_hits # 0)
             /\ IF m.pc = "decide" /\ n.pc = "sleep"
                THEN /\ (n.consecutive_misses # 0) # (n.consecutive_hits # 0)
                     /\ IF m.rssi # None
                        THEN /\ n.consecutive_misses = 0
                             /\ n.consecutive_hits = m.consecutive_hits + 1
                        ELSE /\ n.consecutive_hits = 0
                             /\ n.consecutive_misses = m.consecutive_misses + 1
                ELSE /\ n.consecutive_misses = m.consecutive_misses
                     /\ n.consecutive_hits = m.consecutive_hits]_vars

\* two detections, then a miss that is judged: the hits are gone
C11_Witness ==
    /\ prog = "perfect"
    /\ perfect.pc = "sleep"
    /\ perfect.scan_count = 3
    /\ perfect.device_in_range
    /\ perfect.consecutive_misses = 1
    /\ perfect.consecutive_hits = 0

\* the last invocation of the run
LastEvent == events[Len(events)]

\* the phase the last invocation belongs to has not changed since
SamePhase ==
    IF prog = "perfect"
    THEN perfect.device_in_range = (LastEvent.action = "wake")
    ELSE IF prog = "sleep"
    THEN sleep.pc # "crashed" /\ sleep.consecutive_misses >= DISCONNECT_GRACE_CHECKS
    ELSE simple.pc # "crashed" /\ simple.miss_count >= OUT_OF_RANGE_COUNT

C13_FailureLeavesNextTransition ==
    [][(/\ prog = "perfect"
        /\ Len(events) > 0
        /\ LastEvent.outcome = "raise"
        /\ perfect.pc = "decide"
        /\ perfect'.pc = "sleep") =>
          LET m == perfect
              back == /\ ~m.device_in_range
                      /\ m.rssi # None
                      /\ m.consecutive_hits + 1 >= REQUIRED_HITS
              out == /\ m.device_in_range
                     /\ m.rssi = None
                     /\ m.consecutive_misses + 1 >= required_misses(settings)
              due == IF back /\ settings.ENABLE_WAKE THEN <<"wake">>
                     ELSE IF out /\ settings.ENABLE_LOCK THEN <<"lock">>
                     ELSE <<>>
          IN /\ perfect'.device_in_range =
                    (IF back THEN TRUE ELSE IF out THEN FALSE ELSE m.device_in_range)
             /\ Len(events') = Len(events) + Len(due)
             /\ SubSeq(events', 1, Len(events)) = events
             /\ due # <<>> => events'[Len(events')].action = due[1]]_vars

\* a lock whose command raised, and the wake of the 2nd detection after it
C13_Witness ==
    /\ prog = "perfect"
    /\ perfect.device_in_range
    /\ \E i \in 1..(Len(events) - 1) :
          /\ events[i].action = "lock"
          /\ events[i].outcome = "raise"
          /\ events[i + 1].action = "wake"
          /\ events[i + 1].tick = events[i].tick + REQUIRED_HITS

\* C14 as stated: out of range, the first detection after a miss leaves the phase
\* out of range (the absent judgment stays handled) and invokes nothing.
C14_SingleDetectionKeepsLock ==
    [][/\ (/\ prog = "perfect"
           /\ perfect.pc = "decide" /\ perfect'.pc = "sleep"
           /\ ~perfect.device_in_range
           /\ perfect.rssi # None /\ perfect.consecutive_hits = 0) =>
              ~perfect'.device_in_range /\ events' = events
       /\ (/\ prog = "simple"
           /\ simple.pc = "decide" /\ simple'.pc = "sleep"
           /\ simple.screen_off
           /\ simple.connected /\ simple.miss_count > 0) =>
              simple'.screen_off /\ events' = events]_vars

\* C15 as stated: whatever the settings, the judgment of a first miss (the miss
\* count becomes 1) neither leaves the in-range phase nor invokes an action.
C15_SingleMissNeverLocks ==
    [][/\ (/\ prog = "perfect"
           /\ perfect.pc = "decide"
           /\ perfect'.consecutive_misses = 1) =>
              /\ perfect'.device_in_range = perfect.device_in_range
              /\ events' = events
       /\ (/\ prog = "original"
           /\ original.pc = "decide"
           /\ original'.consecutive_misses = 1) =>
              /\ original'.device_in_range = original.device_in_range
              /\ events' = events]_vars

\* C16 as stated: with a configuration whose miss threshold is below 1 the loop
\* never starts: no scan is made and no action is invoked.
C16_InvalidConfigNeverStarts ==
    (prog = "original" /\ original_required_misses(settings) < 1) =>
        (original.scans = 0 /\ events = <<>>)

---------------------------------------------------------------------------
\* Claims about the web app (SpecApp).

\* C17 as stated: a loop that was running when a stop was requested ends: it
\* finishes the check it is in and does not pass its while test again.
C17_StopIsHonoured ==
    [][\A t \in Threads :
          (threads[t].asked /\ threads[t].pc = "l119") => threads'[t].pc # "l121"]_vars

\* C19: a status snapshot never mixes two ticks: when the answer of
\* /api/status carries the presence that a check has just written, the
\* last-check time in it is the time of that same check, never the time a
\* check before it has left there.
C19_SnapshotFromOneTick ==
    \A t \in Threads :
        (threads[t].pc = "l123" /\ api_status.last_check # None)
            => api_status.last_check = Some(threads[t].ticks)

\* C23: in a connection-status monitor the screen is turned off once in a run
\* of not-connected checks, at its 2nd miss, and not again until a connected
\* check has re-armed it: the screen is turned off only while the latch
\* screen_off, which the first invocation of the run sets and only a connected
\* check or a new session clears, is clear.
C23_OncePerMissRun ==
    [][events' # events => ~monitor_state.screen_off]_vars

\* the fields of monitor_state that describe the monitoring itself
TickFields(ms) == <<ms.is_connected, ms.last_check, ms.screen_off>>

\* C26: the loop is the sole writer of the monitor state: a step of a request
\* handler changes is_connected, last_check or screen_off only when no
\* monitor_loop thread is alive.
C26_LoopSoleWriter ==
    [][(requests' # requests /\ TickFields(monitor_state') # TickFields(monitor_state))
          => \A t \in Threads : threads[t].pc \in {"unborn", "done", "crashed"}]_vars

\* C27: at every tick boundary the latch and the miss count agree: when a
\* monitor_loop thread is between two checks and screen_off is set, the
\* thread's miss_count has reached the out-of-range count.
C27_LatchAgreesWithCount ==
    \A t \in Threads :
        (threads[t].pc = "l119" /\ monitor_state.screen_off)
            => threads[t].miss_count >= OUT_OF_RANGE_COUNT

\* C29: a rejected start request leaves everything unchanged: the step that
\* answers a start with 400 changes neither the stop flag nor monitor_state
\* nor the thread global, and no thread and no action invocation.
C29_RejectedStartChangesNothing ==
    [][(\E r \in Requests : requests[r].pc = "none" /\ requests'[r].pc = "400")
          => /\ stop_monitoring' = stop_monitoring
             /\ monitor_state' = monitor_state
             /\ monitor_thread' = monitor_thread
             /\ threads' = threads
             /\ events' = events]_vars

\* C29 witness: a start was rejected while a session was running, and the
\* session's thread is still checking.
C29_Witness ==
    /\ \E r \in Requests : requests[r].pc = "400"
    /\ ~stop_monitoring
    /\ monitor_state.is_monitoring
    /\ monitor_thread # 0
    /\ threads[monitor_thread].pc = "probing"
    /\ ~threads[monitor_thread].asked
    /\ threads[monitor_thread].ticks = MaxTicks

\* C30: every probe of a monitor_loop thread is for a target: the instance id
\* a thread hands to is_device_connected is never the cleared (None) or an
\* empty one.
C30_ProbeHasTarget ==
    \A t \in Threads : threads[t].pc = "probing" => TruthyId(threads[t].arg)

\* a start handler that has set is_monitoring and has not started its thread
Starting(r) == requests[r].pc \in {"l181", "l182"}

\* C31: the reported flag matches the loop's lifecycle. After every step,
\* is_monitoring is set only while a monitor_loop thread is alive or a start
\* handler is about to create one; and the step in which a thread leaves its
\* loop clears the flag only if that thread is the one of the newest session.
C31_FlagMatchesLifecycle ==
    [][/\ monitor_state'.is_monitoring =>
            \/ \E t \in Threads : threads'[t].pc \notin {"unborn", "done", "crashed"}
            \/ \E r \in Requests : requests'[r].pc \in {"l181", "l182"}
       /\ \A t \in Threads :
            (/\ threads[t].pc = "l136" /\ threads'[t].pc = "done"
             /\ monitor_state.is_monitoring /\ ~monitor_state'.is_monitoring)
                => /\ t = monitor_thread
                   /\ ~\E r \in Requests : Starting(r)]_vars

---------------------------------------------------------------------------
\* Claims about the desktop app (SpecGui)

\* C18: a stop issued during the sleep between two ticks makes the loop exit
\* in less than a second, whatever the scan interval is: a thread that was
\* asleep when Stop was pressed has not lived on for a second (two half
\* seconds) since.
C18_StopLatencyBounded ==
    \A l \in Loops : gui.loops[l].asked => gui.loops[l].waited < 2

\* C22: the configuration of a session is immutable: no step taken while the
\* desktop app is monitoring, from after the start to before the stop, changes
\* the scan interval, the out-of-range time or the lock and wake switches the
\* loop reads.
C22_ConfigImmutable ==
    [][(gui.is_monitoring /\ gui'.is_monitoring) => settings' = settings]_vars

---------------------------------------------------------------------------
\* Claims about the old web interface (SpecWeb)

\* C20: a session starts from fresh debounce state and nothing of an earlier
\* session reaches it: when a thread is about to make its first scan and the
\* threads of all earlier sessions have ended, the phase is the one a new
\* EnhancedBlueLock has and both counters are 0.
C20_SessionStartsFresh ==
    \A l \in WebLoops :
        (/\ web.loops[l].pc = "while"
         /\ web.loops[l].scans = 0
         /\ \A k \in WebLoops \ {l} : web.loops[k].pc \in {"unborn", "done"})
            => /\ web.device_in_range = WebIdle.device_in_range
               /\ web.loops[l].consecutive_misses = 0
               /\ web.loops[l].consecutive_hits = 0

---------------------------------------------------------------------------
\* Claims about the command-line monitors (Spec), continued

\* C21: the signal reading never drives decisions. A run on the same probes,
\* seen and missed by the same scan methods but with other readings, has the
\* same phase after every scan and the same action invocations.
C21_SignalNeverDrives ==
    (prog = "perfect" /\ echo.on) =>
        /\ echo.m.device_in_range = perfect.device_in_range
        /\ echo.events = events

\* C24: no flapping. While no two scans in a row have agreed, the phase is the
\* one the run started in and no action has been invoked.
C24_NoFlapping ==
    (prog = "perfect" /\ perfect.alternating) =>
        /\ perfect.device_in_range = PerfectInit.device_in_range
        /\ events = <<>>

\* C24 witness: six scans have been judged, each unlike the one before.
C24_Witness ==
    /\ prog = "perfect"
    /\ perfect.alternating
    /\ perfect.scan_count >= 6
    /\ perfect.pc = "sleep"
    /\ events = <<>>

\* the order of one tick of monitor_device: scan, judgment with its action,
\* sleep; Ctrl+C ends the loop anywhere
TickOrder ==
    {<<"scan", "decide">>, <<"decide", "sleep">>, <<"sleep", "scan">>,
     <<"scan", "stopped">>, <<"decide", "stopped">>, <<"sleep", "stopped">>}

\* C25: ticks are strictly sequential, probe -> decide -> act -> sleep. Every
\* step of the loop follows that order; an action is invoked by the judgment
\* of the tick that changes the phase, carries that tick's number and is
\* over when the sleep begins; a scan begins only after the sleep of the tick
\* before it and is the next tick.
C25_TicksSequential ==
    [][prog = "perfect" =>
          /\ perfect'.pc # perfect.pc => <<perfect.pc, perfect'.pc>> \in TickOrder
          /\ events' # events =>
                /\ perfect.pc = "decide" /\ perfect'.pc = "sleep"
                /\ perfect'.device_in_range # perfect.device_in_range
                /\ Len(events') = Len(events) + 1
                /\ events'[Len(events')].tick = perfect.scan_count
                /\ perfect'.scan_count = perfect.scan_count
          /\ perfect'.scan_count # perfect.scan_count =>
                /\ perfect.pc = "scan" /\ perfect'.pc = "decide"
                /\ perfect'.scan_count = perfect.scan_count + 1
                /\ events' = events]_vars

\* C25 witness: the run invoked an action in one tick, the next action in a
\* later one, and has begun a further scan since.
C25_Witness ==
    /\ prog = "perfect"
    /\ Len(events) >= 2
    /\ events[1].tick < events[2].tick
    /\ perfect.scan_count > events[2].tick
    /\ perfect.pc = "decide"

\* C28: steady-state convergence. Once a run of detections has reached the hit
\* threshold the phase is in range, and stays so while the detections go on;
\* once a run of misses has reached the miss threshold the phase is out of
\* range, and stays so while the misses go on; the ticks that prolong the run
\* past the threshold invoke no action. Stated for every judgment of a tick,
\* in bluelock_perfect and in bluelock_original.
C28_SteadyState ==
    [][/\ (prog = "perfect" /\ perfect.pc = "decide" /\ perfect'.pc = "sleep") =>
            /\ perfect'.consecutive_hits >= REQUIRED_HITS => perfect'.device_in_range
            /\ perfect'.consecutive_misses >= required_misses(settings)
                  => ~perfect'.device_in_range
            /\ perfect'.consecutive_hits > REQUIRED_HITS => events' = events
            /\ perfect'.consecutive_misses > required_misses(settings)
                  => events' = events
       /\ (prog = "original" /\ original.pc = "decide" /\ original'.pc = "sleep") =>
            /\ original'.consecutive_hits >= 2 => original'.device_in_range
            /\ original'.consecutive_misses >= Max(1, original_required_misses(settings))
                  => ~original'.device_in_range
            /\ original'.consecutive_hits > 2 => events' = events
            /\ original'.consecutive_misses > Max(1, original_required_misses(settings))
                  => events' = events]_vars

\* C28 witness: bluelock_perfect came into range, then missed one scan more
\* than the threshold asks for: it locked at the threshold and is out of range.
C28_Witness ==
    /\ prog = "perfect"
    /\ perfect.pc = "sleep"
    /\ perfect.consecutive_misses > required_misses(settings)
    /\ ~perfect.device_in_range
    /\ Len(events) = 2
    /\ events[2].action = "lock"
    /\ events[2].tick = perfect.scan_count - 1

\* the number of checks the flags of a run ask for: the n of a numeric
\* --max-checks n, else 1 under --once, else no limit
AskedChecks ==
    LET v == args.argv
    IN IF v.max_checks \in {Some("1"), Some("3")}
       THEN IF v.max_checks = Some("1") THEN Some(1) ELSE Some(3)
       ELSE IF v.once THEN Some(1) ELSE None

\* C32: in sleep_on_disconnect a run with --max-checks n (n >= 1), or with
\* --once for n = 1, never begins more than n connection checks, begins no
\* further check once the n-th is over, and leaves its loop by the break only
\* after exactly n checks; a run with neither flag never leaves its loop by
\* the break.
C32_ChecksBounded ==
    prog = "sleep" =>
        IF AskedChecks # None
        THEN /\ sleep.n_checks <= AskedChecks[1]
             /\ sleep.pc = "check" => sleep.n_checks < AskedChecks[1]
             /\ sleep.pc = "done" => sleep.n_checks = AskedChecks[1]
        ELSE sleep.pc # "done"

\* a run with --max-checks 3 has made its three checks and left the loop
C32_Witness ==
    /\ prog = "sleep"
    /\ args.argv.max_checks = Some("3")
    /\ sleep.pc = "done"
    /\ sleep.n_checks = 3

---------------------------------------------------------------------------
\* Claims about pick_device (SpecPick)

\* the first listed device whose lowered name holds a keyword, else the first
Chosen(devices) ==
    LET hits == {i \in 1..Len(devices) : is_preferred(devices[i])}
    IN IF hits # {}
       THEN devices[CHOOSE i \in hits : \A j \in hits : i <= j]
       ELSE devices[1]

\* the device pick_device makes of an override id
Pinned(id) == [name |-> "Pinned Bluetooth Device", instance_id |-> id]

\* C33 as stated: an override that was given is returned and the file holds it
\* afterwards, whatever the config and the connected devices; otherwise a
\* pinned config is returned and the file is left alone; otherwise the first
\* preferred, else the first, connected device is returned and the file holds
\* it afterwards; None is returned only without override, pinned config and
\* connected device.
C33_AsStated ==
    pick.pc = "returned" =>
        LET cfg == load_config(pick.before)
        IN /\ IF pick.override # None
              THEN /\ pick.device = Some(Pinned(pick.override[1]))
                   /\ load_config(pick.file) = pick.device
              ELSE IF cfg # None
              THEN /\ pick.device = cfg
                   /\ pick.file = pick.before
              ELSE IF pick.devices # <<>>
              THEN /\ pick.device = Some(Chosen(pick.devices))
                   /\ load_config(pick.file) = pick.device
              ELSE TRUE
           /\ pick.device = None =>
                /\ pick.override = None
                /\ cfg = None
                /\ pick.devices = <<>>

\* C33, amended: a non-empty override is returned; otherwise the pinned config
\* as load_config read it, with no save and the file left alone; otherwise the
\* first preferred, else the first, connected device; None only when there is
\* no non-empty override, no pinned config and no connected device. In the
\* override and the detection case save_config is called once, with the
\* returned device; the file then holds it when the write succeeded and is as
\* before when the file could not be opened.
C33_PickPrecedence ==
    pick.pc = "returned" =>
        LET cfg == load_config(pick.before)
            given == pick.override # None /\ pick.override # Some("")
        IN /\ IF given
              THEN /\ pick.device = Some(Pinned(pick.override[1]))
                   /\ pick.saved = <<Pinned(pick.override[1])>>
              ELSE IF cfg # None
              THEN /\ pick.device = cfg
                   /\ pick.saved = <<>>
                   /\ pick.file = pick.before
              ELSE IF pick.devices # <<>>
              THEN /\ pick.device = Some(Chosen(pick.devices))
                   /\ pick.saved = <<Chosen(pick.devices)>>
              ELSE /\ pick.device = None
                   /\ pick.saved = <<>>
                   /\ pick.file = pick.before
           /\ pick.device = None => (~given /\ cfg = None /\ pick.devices = <<>>)
           /\ pick.outcome = "written" => load_config(pick.file) = pick.device
           /\ pick.outcome = "refused" => pick.file = pick.before

\* no override, no pinned config, a keyboard listed before the earbuds: the
\* earbuds were returned and written to the file
C33_Witness ==
    /\ pick.pc = "returned"
    /\ pick.override = None
    /\ load_config(pick.before) = None
    /\ pick.devices = <<[name |-> "Keyboard", instance_id |-> "K"],
                        [name |-> "EARBUDS", instance_id |-> "E"]>>
    /\ pick.device = Some([name |-> "EARBUDS", instance_id |-> "E"])
    /\ load_config(pick.file) = pick.device

===========================================================================
